---------------------------- MODULE Spec2Model ----------------------------
(***************************************************************************)
(* A model of the API specification change monitor: the change detector    *)
(* (diff_detector.py, over DeepDiff's printed paths) and the part of the    *)
(* monitor and of the notifier that consumes its result.                    *)
(*                                                                          *)
(* Python strings are sequences of one-character strings; the detector's    *)
(* split / in / startswith / strip / upper are computed on them character   *)
(* by character. Python values (documents) are tagged trees.                *)
(***************************************************************************)
EXTENDS Integers, Sequences, FiniteSets, TLC

(***************************************************************************)
(* Bounds of the model.                                                     *)
(***************************************************************************)
\* How many edits the published document has in a behaviour.
MaxEdits == 2

(***************************************************************************)
(* Python strings.                                                          *)
(***************************************************************************)
\* The element of a singleton.  The({e : x \in {v}}) is e with x standing for
\* the value of v, which is evaluated once.
The(S) == CHOOSE r \in S : TRUE

\* Index of the first occurrence of sub in s (1-based), 0 when there is none.
Find(s, sub) ==
    LET I == {i \in 1..(Len(s) - Len(sub) + 1) : SubSeq(s, i, i + Len(sub) - 1) = sub}
    IN  IF I = {} THEN 0 ELSE CHOOSE i \in I : \A j \in I : i <= j

\* sub in s
Contains(sub, s) == Find(s, sub) # 0

\* s.startswith(prefix)
StartsWith(s, prefix) ==
    Len(prefix) <= Len(s) /\ SubSeq(s, 1, Len(prefix)) = prefix

\* s.split(sep): the pieces between the non-overlapping occurrences of sep.
RECURSIVE Split(_, _)
Split(str, sep) ==
    The({ The({ IF i = 0 THEN <<s>>
                ELSE <<SubSeq(s, 1, i - 1)>> \o Split(SubSeq(s, i + Len(sep), Len(s)), sep) :
                i \in {Find(s, sep)} }) :
          s \in {str} })

\* s.strip(chars): leading and trailing characters of the set chars removed.
Strip(str, chars) ==
    The({ The({ IF keep = {} THEN <<>>
                ELSE SubSeq(s, CHOOSE i \in keep : \A j \in keep : i <= j,
                               CHOOSE i \in keep : \A j \in keep : i >= j) :
                keep \in {{i \in 1..Len(s) : s[i] \notin chars}} }) :
          s \in {str} })

\* c.upper() for one character.
UpperChar(c) ==
    CASE c = "a" -> "A" [] c = "b" -> "B" [] c = "c" -> "C" [] c = "d" -> "D"
      [] c = "e" -> "E" [] c = "f" -> "F" [] c = "g" -> "G" [] c = "h" -> "H"
      [] c = "i" -> "I" [] c = "j" -> "J" [] c = "k" -> "K" [] c = "l" -> "L"
      [] c = "m" -> "M" [] c = "n" -> "N" [] c = "o" -> "O" [] c = "p" -> "P"
      [] c = "q" -> "Q" [] c = "r" -> "R" [] c = "s" -> "S" [] c = "t" -> "T"
      [] c = "u" -> "U" [] c = "v" -> "V" [] c = "w" -> "W" [] c = "x" -> "X"
      [] c = "y" -> "Y" [] c = "z" -> "Z" [] OTHER -> c

\* s.upper()
Upper(str) == The({ [i \in 1..Len(s) |-> UpperChar(s[i])] : s \in {str} })

\* The string literals of the program and of the documents.
S_root == <<"r", "o", "o", "t">>
S_paths == <<"p", "a", "t", "h", "s">>
S_components == <<"c", "o", "m", "p", "o", "n", "e", "n", "t", "s">>
S_securitySchemes ==
    <<"s", "e", "c", "u", "r", "i", "t", "y", "S", "c", "h", "e", "m", "e", "s">>
S_security == <<"s", "e", "c", "u", "r", "i", "t", "y">>
S_parameters == <<"p", "a", "r", "a", "m", "e", "t", "e", "r", "s">>
S_required == <<"r", "e", "q", "u", "i", "r", "e", "d">>
S_requestBody == <<"r", "e", "q", "u", "e", "s", "t", "B", "o", "d", "y">>
S_responses == <<"r", "e", "s", "p", "o", "n", "s", "e", "s">>
S_schema == <<"s", "c", "h", "e", "m", "a">>
S_content == <<"c", "o", "n", "t", "e", "n", "t">>
S_summary == <<"s", "u", "m", "m", "a", "r", "y">>
S_description == <<"d", "e", "s", "c", "r", "i", "p", "t", "i", "o", "n">>
S_name == <<"n", "a", "m", "e">>
S_info == <<"i", "n", "f", "o">>
S_version == <<"v", "e", "r", "s", "i", "o", "n">>
S_type == <<"t", "y", "p", "e">>
S_get == <<"g", "e", "t">>
S_post == <<"p", "o", "s", "t">>
S_put == <<"p", "u", "t">>
S_delete == <<"d", "e", "l", "e", "t", "e">>
S_options == <<"o", "p", "t", "i", "o", "n", "s">>
S_head == <<"h", "e", "a", "d">>
S_patch == <<"p", "a", "t", "c", "h">>
S_trace == <<"t", "r", "a", "c", "e">>
S_parameter == <<" ", "p", "a", "r", "a", "m", "e", "t", "e", "r">>
S_new_parameter == <<" ", "n", "e", "w">> \o S_parameter
S_new_content_type ==
    <<" ", "(", "n", "e", "w", " ", "c", "o", "n", "t", "e", "n", "t", " ",
      "t", "y", "p", "e", ")">>
S_security_changed == <<" ">> \o S_security \o <<" ", "c", "h", "a", "n", "g", "e", "d">>
\* "']", "['", "['/", "]", "'"
S_qb == <<"'", "]">>
S_bq == <<"[", "'">>
S_bqs == <<"[", "'", "/">>
S_b == <<"]">>
S_q == <<"'">>

(***************************************************************************)
(* Python values: None, bool, str, list, dict.  A dict is a function from   *)
(* its keys (strings) to values, a list a sequence of values.               *)
(***************************************************************************)
None == [k |-> "none", v |-> <<>>]
Bool(b) == [k |-> "bool", v |-> b]
Str(s) == [k |-> "str", v |-> s]
List(s) == [k |-> "list", v |-> s]
Dict(f) == [k |-> "dict", v |-> f]
EmptyDict == Dict(<<>>)

IsDict(x) == x.k = "dict"

\* bool(x): None, False, "", [] and {} are falsy.
Truthy(x) ==
    CASE x.k = "none" -> FALSE
      [] x.k = "bool" -> x.v
      [] OTHER -> x.v # <<>>

\* d.keys()
Keys(d) == DOMAIN d.v

\* key in d
HasKey(d, key) == key \in DOMAIN d.v

\* d.get(key, {}) of a dict d
Get(d, key) == IF HasKey(d, key) THEN d.v[key] ELSE EmptyDict

\* The elements of a finite set, as a sequence (the iteration order of a
\* Python dict or ordered set, which no claim depends on).
RECURSIVE SetToSeq(_)
SetToSeq(set) ==
    The({ IF S = {} THEN <<>>
          ELSE The({ <<x>> \o SetToSeq(S \ {x}) : x \in {CHOOSE y \in S : TRUE} }) :
          S \in {set} })

Range(seq) == The({ {s[i] : i \in 1..Len(s)} : s \in {seq} })

\* The keys of the report's sections and the literals of its entries.
S_operations == <<"o", "p", "e", "r", "a", "t", "i", "o", "n", "s">>
S_required_parameters == S_required \o <<"_">> \o S_parameters
S_request_formats == <<"r", "e", "q", "u", "e", "s", "t", "_", "f", "o", "r", "m", "a", "t", "s">>
S_response_formats ==
    <<"r", "e", "s", "p", "o", "n", "s", "e", "_", "f", "o", "r", "m", "a", "t", "s">>
S_global_security == <<"g", "l", "o", "b", "a", "l", "_">> \o S_security
S_operation_security ==
    <<"o", "p", "e", "r", "a", "t", "i", "o", "n", "_">> \o S_security
S_security_schemes == S_security \o <<"_", "s", "c", "h", "e", "m", "e", "s">>
S_schemas == <<"s", "c", "h", "e", "m", "a", "s">>
S_requestBodies == <<"r", "e", "q", "u", "e", "s", "t", "B", "o", "d", "i", "e", "s">>
S_headers == <<"h", "e", "a", "d", "e", "r", "s">>
S_dot == <<".">>
S_global_marker ==
    <<"G", "l", "o", "b", "a", "l", " ">> \o S_security \o
    <<" ", "r", "e", "q", "u", "i", "r", "e", "m", "e", "n", "t", "s", " ",
      "c", "h", "a", "n", "g", "e", "d">>

(***************************************************************************)
(* DeepDiff(previous_spec, current_spec, ignore_order=True).                *)
(*                                                                          *)
(* A location is a sequence of segments (a dict key or a list index); an    *)
(* entry of the diff is [kind, path, old_value, new_value].                 *)
(***************************************************************************)
KeySeg(s) == [t |-> "key", s |-> s, i |-> 0]
IdxSeg(i) == [t |-> "idx", s |-> <<>>, i |-> i]

Entry(kind, path, old, new) ==
    [kind |-> kind, path |-> path, old_value |-> old, new_value |-> new]

\* The increasing sequence of the elements of a finite set of integers.
RECURSIVE SortedSeq(_)
SortedSeq(set) ==
    The({ IF S = {} THEN <<>>
          ELSE The({ <<m>> \o SortedSeq(S \ {m}) :
                     m \in {CHOOSE x \in S : \A y \in S : x <= y} }) :
          S \in {set} })

Min(a, b) == IF a <= b THEN a ELSE b

\* A variant that matches the items of two lists position by position, as a
\* comparison that does not ignore the order does; C11 does not hold of it.
UnmatchedInOrder(l1, l2) ==
    SortedSeq({i \in 1..Len(l1) : i > Len(l2) \/ l1[i] # l2[i]})

\* ignore_order=True: the indices of the items of l1 that have no equal
\* anywhere in l2.
Unmatched(l1, l2) == SortedSeq({i \in 1..Len(l1) : l1[i] \notin Range(l2)})

\* The entries for two lists, compared with ignore_order: l1[removed[n]] has
\* no equal in l2 and l2[added[n]] none in l1.  With pairing, the library
\* pairs a removed and an added container that are close to each other and
\* reports their difference in place (it does when their distance is under
\* its cutoff); otherwise they are one element removed and one added.
RECURSIVE DeepDiffAt(_, _, _, _)
DeepDiffList(l1, l2, path, pairing, removed, added) ==
    LET paired == {n \in 1..Min(Len(removed), Len(added)) :
                    /\ pairing
                    /\ l1[removed[n]].k = l2[added[n]].k
                    /\ l1[removed[n]].k \in {"dict", "list"}}
    IN  {Entry("iterable_item_removed", path \o <<IdxSeg(removed[n] - 1)>>, None, None) :
            n \in (1..Len(removed)) \ paired}
        \cup
        {Entry("iterable_item_added", path \o <<IdxSeg(added[n] - 1)>>, None, None) :
            n \in (1..Len(added)) \ paired}
        \cup
        UNION {DeepDiffAt(l1[removed[n]], l2[added[n]],
                          path \o <<IdxSeg(removed[n] - 1)>>, pairing) : n \in paired}

\* The entries for the values t1 (previous) and t2 (current) at one location.
DeepDiffAt(old, new, at, pairing) ==
    The({
        IF t1 = t2 THEN {}
        ELSE IF t1.k # t2.k THEN {Entry("type_changes", path, t1, t2)}
        ELSE IF t1.k = "dict" THEN
            {Entry("dictionary_item_added", path \o <<KeySeg(key)>>, None, None) :
                key \in Keys(t2) \ Keys(t1)}
            \cup
            {Entry("dictionary_item_removed", path \o <<KeySeg(key)>>, None, None) :
                key \in Keys(t1) \ Keys(t2)}
            \cup
            UNION {DeepDiffAt(t1.v[key], t2.v[key], path \o <<KeySeg(key)>>, pairing) :
                key \in Keys(t1) \cap Keys(t2)}
        ELSE IF t1.k = "list" THEN
            The({ DeepDiffList(t1.v, t2.v, path, pairing, removed, added) :
                  removed \in {Unmatched(t1.v, t2.v)},
                  added \in {Unmatched(t2.v, t1.v)} })
        ELSE {Entry("values_changed", path, t1, t2)} :
        t1 \in {old}, t2 \in {new}, path \in {at} })

\* str(i) of a list index.
Digits == <<"0", "1", "2", "3", "4", "5", "6", "7", "8", "9">>
RECURSIVE IntStr(_)
IntStr(i) == IF i < 10 THEN <<Digits[i + 1]>> ELSE IntStr(i \div 10) \o <<Digits[(i % 10) + 1]>>

\* The printed form of the n first segments of a location.
RECURSIVE PathStrTo(_, _)
PathStrTo(path, n) ==
    IF n = 0 THEN S_root
    ELSE IF path[n].t = "key" THEN PathStrTo(path, n - 1) \o S_bq \o path[n].s \o S_qb
    ELSE PathStrTo(path, n - 1) \o <<"[">> \o IntStr(path[n].i) \o <<"]">>

\* The printed form of a location: root['paths']['/users']['get']['parameters'][0]
PathStr(path) == The({ PathStrTo(p, Len(p)) : p \in {path} })

\* The printed locations of a diff's entries of one kind, in the order the
\* library's ordered set of them is iterated.
Locations(entries, kind) ==
    LET Location(e) == PathStr(e.path)
    IN  The({ [n \in 1..Len(h) |-> Location(h[n])] :
              h \in {SetToSeq({e \in entries : e.kind = kind})} })

\* diff.get('values_changed', {}).items(), as a sequence.
Items(entries) ==
    LET Item(e) == [key |-> PathStr(e.path), old_value |-> e.old_value,
                    new_value |-> e.new_value]
    IN  The({ [n \in 1..Len(h) |-> Item(h[n])] :
              h \in {SetToSeq({e \in entries : e.kind = "values_changed"})} })

\* The object DeepDiff returns, as the detector reads it: diff.get(kind, set())
\* is the sequence diff[kind].
DeepDiff(t1, t2, pairing) ==
    The({ [dictionary_item_added |-> Locations(entries, "dictionary_item_added"),
           dictionary_item_removed |-> Locations(entries, "dictionary_item_removed"),
           iterable_item_added |-> Locations(entries, "iterable_item_added"),
           iterable_item_removed |-> Locations(entries, "iterable_item_removed"),
           type_changes |-> Locations(entries, "type_changes"),
           values_changed |-> Items(entries)] :
          entries \in {DeepDiffAt(t1, t2, <<>>, pairing)} })

\* The keys of diff.get('values_changed', {})
ValuesChangedKeys(diff) ==
    LET Key(item) == item.key
    IN  The({ [n \in 1..Len(h) |-> Key(h[n])] : h \in {diff.values_changed} })

(***************************************************************************)
(* APISpecDiffDetector.                                                     *)
(***************************************************************************)
\* self.http_methods
http_methods == <<S_get, S_post, S_put, S_delete, S_options, S_head, S_patch, S_trace>>

\* None where the code holds a string or None; `if x` is false of it and of "".
NoneStr == <<"None">>
StrTruthy(s) == s # NoneStr /\ s # <<>>

\* A variant of the operation's name that keeps the method's case; C6 does not
\* hold of a detector that names operations so.
OperationNameAsWritten(method, path) == method \o <<" ">> \o path

\* f"{method.upper()} {path}"
OperationName(method, path) == Upper(method) \o <<" ">> \o path

\* A variant that sets section[key] whether the list is empty or not; C28 does
\* not hold of it.
PutAlways(section, key, list) == (key :> list) @@ section

\* One section (added, changed or removed) of the changes, with
\* section[key] = list set when the list is not empty.
PutIf(section, key, list) ==
    The({ IF l # <<>> THEN (key :> l) @@ section ELSE section : l \in {list} })

\* _extract_paths: every item here is a str (an element of DeepDiff's set of
\* printed locations, or a key of its values_changed dict), so only the first
\* branch of the loop body applies.
ExtractPaths(diff_set, key_prefix) ==
    LET prefix == S_root \o S_bq \o key_prefix \o S_qb
        Hit(item) == StartsWith(item, prefix) /\ Len(Split(item, S_b)) >= 3
        PathOf(item) == Strip(Split(item, S_b)[2], {"[", "'"})
    IN  The({ [n \in 1..Len(h) |-> PathOf(h[n])] :
              h \in {SelectSeq(diff_set, Hit)} })

\* _extract_components: as for _extract_paths, the items are str.
ExtractComponents(diff_set, key_prefix) ==
    LET prefix == S_root \o S_bq \o Split(key_prefix, S_dot)[1] \o S_qb
                         \o S_bq \o Split(key_prefix, S_dot)[2] \o S_qb
        Parts(item) == Split(Split(item, prefix)[2], S_q)
        Hit(item) == Contains(prefix, item) /\ Len(Parts(item)) >= 3
        ComponentOf(item) == Parts(item)[2]
    IN  The({ [n \in 1..Len(h) |-> ComponentOf(h[n])] :
              h \in {SelectSeq(diff_set, Hit)} })

\* _extract_operation_info: <<path, method>>
ExtractOperationInfo(item_str) ==
    The({ IF Len(parts) >= 3
          THEN << IF Contains(S_bqs, parts[2]) THEN Split(parts[2], S_bq)[2] ELSE NoneStr,
                  IF Contains(S_bq, parts[3]) THEN Split(parts[3], S_bq)[2] ELSE NoneStr >>
          ELSE <<NoneStr, NoneStr>> :
          parts \in {Split(item_str, S_qb)} })

\* A variant of the method pattern without its closing "']", which a fragment
\* of the split key can hold; C27 does not hold of it.
MethodPatternOpen(m) == S_bq \o m

\* f"['{m}']"
MethodPattern(m) == S_bq \o m \o S_qb

\* The last element of a non-empty set of indices.
Last(I) == CHOOSE i \in I : \A j \in I : j <= i

\* The loop of _extract_operation_from_key over the fragments: <<path, method>>.
\* The path is that of the last fragment that holds "['/", the method the first
\* of http_methods whose pattern the last other fragment with a pattern holds.
OperationFragments(parts) ==
    The({ << IF isPath = {} THEN NoneStr ELSE Split(parts[Last(isPath)], S_bq)[2],
             IF isMethod = {} THEN NoneStr
             ELSE http_methods[
                    CHOOSE n \in 1..Len(http_methods) :
                        /\ Contains(MethodPattern(http_methods[n]), parts[Last(isMethod)])
                        /\ \A o \in 1..(n - 1) :
                              ~Contains(MethodPattern(http_methods[o]), parts[Last(isMethod)])] >> :
          isPath \in {{i \in 1..Len(parts) : Contains(S_bqs, parts[i])}},
          isMethod \in {{i \in 1..Len(parts) :
                            /\ ~Contains(S_bqs, parts[i])
                            /\ \E n \in 1..Len(http_methods) :
                                  Contains(MethodPattern(http_methods[n]), parts[i])}} })

\* _extract_operation_from_key
ExtractOperationFromKey(key_str) ==
    IF ~Contains(S_paths, key_str) THEN NoneStr
    ELSE The({ IF StrTruthy(pm[1]) /\ StrTruthy(pm[2])
               THEN OperationName(pm[2], pm[1])
               ELSE NoneStr :
               pm \in {The({ OperationFragments(parts) : parts \in {Split(key_str, S_qb)} })} })

\* _extract_parameter_info
ExtractParameterInfo(key_str) ==
    The({ IF StrTruthy(operation_info) /\ Contains(S_parameters, key_str)
          THEN operation_info \o S_parameter
          ELSE NoneStr :
          operation_info \in {ExtractOperationFromKey(key_str)} })

\* _check_if_required_parameter
CheckIfRequiredParameter(item_str, current_spec) ==
    The({ IF StrTruthy(operation_info) THEN operation_info \o S_new_parameter ELSE NoneStr :
          operation_info \in {ExtractOperationFromKey(item_str)} })

\* _process_path_changes
ProcessPathChanges(diff, changes, previous_spec, current_spec) ==
    LET added_paths == ExtractPaths(diff.dictionary_item_added, S_paths)
        changed_paths == ExtractPaths(ValuesChangedKeys(diff), S_paths)
        removed_paths == ExtractPaths(diff.dictionary_item_removed, S_paths)
    IN  [added |-> PutIf(changes.added, S_paths, added_paths),
         changed |-> PutIf(changes.changed, S_paths, changed_paths),
         removed |-> PutIf(changes.removed, S_paths, removed_paths)]

\* The third loop of _process_operation_changes, from the n-th key on.
RECURSIVE ChangedOperationsLoop(_, _, _, _)
ChangedOperationsLoop(keys, n, operations, paths) ==
    IF n > Len(keys) THEN operations
    ELSE The({ IF /\ StrTruthy(info[1]) /\ StrTruthy(info[2])
                  /\ OperationName(info[2], info[1]) \notin Range(changed_operations)
                  /\ info[1] \in processed_paths
               THEN ChangedOperationsLoop(keys, n + 1,
                        Append(changed_operations, OperationName(info[2], info[1])),
                        processed_paths)
               ELSE ChangedOperationsLoop(keys, n + 1, changed_operations, processed_paths) :
               info \in {ExtractOperationInfo(keys[n])},
               changed_operations \in {operations},
               processed_paths \in {paths} })

\* _process_operation_changes
ProcessOperationChanges(diff, changes, previous_spec, current_spec) ==
    LET IsOperation(item) ==
            The({ StrTruthy(info[1]) /\ StrTruthy(info[2]) :
                  info \in {ExtractOperationInfo(item)} })
        Name(item) ==
            The({ OperationName(info[2], info[1]) : info \in {ExtractOperationInfo(item)} })
        PathOf(item) == ExtractOperationInfo(item)[1]
        InPrevious(item) == PathOf(item) \in Keys(Get(previous_spec, S_paths))
        IsNew(item) == IsOperation(item) /\ ~InPrevious(item)
        IsModification(item) == IsOperation(item) /\ InPrevious(item)
        added_items == diff.dictionary_item_added
        added_operations ==
            The({ [n \in 1..Len(h) |-> Name(h[n])] :
                  h \in {SelectSeq(added_items, IsNew)} })
        processed_paths == Range(The({ [n \in 1..Len(h) |-> PathOf(h[n])] :
                                       h \in {SelectSeq(added_items, IsOperation)} }))
        removed_operations ==
            The({ [n \in 1..Len(h) |-> Name(h[n])] :
                  h \in {SelectSeq(diff.dictionary_item_removed, IsOperation)} })
        changed_operations ==
            ChangedOperationsLoop(ValuesChangedKeys(diff), 1,
                The({ [n \in 1..Len(h) |-> Name(h[n])] :
                      h \in {SelectSeq(added_items, IsModification)} }), processed_paths)
    IN  [added |-> PutIf(changes.added, S_operations, added_operations),
         changed |-> PutIf(changes.changed, S_operations, changed_operations),
         removed |-> PutIf(changes.removed, S_operations, removed_operations)]

\* _process_parameter_changes
ProcessParameterChanges(diff, changes, previous_spec, current_spec) ==
    LET Mentions(item) ==
            Contains(S_required, item.key) /\ Contains(S_parameters, item.key)
        BecameRequired(item) ==
            /\ Mentions(item)
            /\ item.old_value = Bool(FALSE) /\ item.new_value = Bool(TRUE)
            /\ StrTruthy(ExtractParameterInfo(item.key))
        BecameOptional(item) ==
            /\ Mentions(item)
            /\ ~(item.old_value = Bool(FALSE) /\ item.new_value = Bool(TRUE))
            /\ item.old_value = Bool(TRUE) /\ item.new_value = Bool(FALSE)
            /\ StrTruthy(ExtractParameterInfo(item.key))
        InfoOf(item) == ExtractParameterInfo(item.key)
        NewRequired(item) ==
            /\ Contains(S_parameters, item)
            /\ StrTruthy(CheckIfRequiredParameter(item, current_spec))
        NewInfoOf(item) == CheckIfRequiredParameter(item, current_spec)
        required_params_added ==
            The({ [n \in 1..Len(h) |-> InfoOf(h[n])] :
                  h \in {SelectSeq(diff.values_changed, BecameRequired)} })
            \o The({ [n \in 1..Len(h) |-> NewInfoOf(h[n])] :
                     h \in {SelectSeq(diff.dictionary_item_added, NewRequired)} })
        required_params_removed ==
            The({ [n \in 1..Len(h) |-> InfoOf(h[n])] :
                  h \in {SelectSeq(diff.values_changed, BecameOptional)} })
    IN  [added |-> PutIf(changes.added, S_required_parameters, required_params_added),
         changed |-> changes.changed,
         removed |-> PutIf(changes.removed, S_required_parameters, required_params_removed)]

\* list(set(seq))
ListOfSet(seq) == SetToSeq(Range(seq))

\* _process_request_response_changes
ProcessRequestResponseChanges(diff, changes, previous_spec, current_spec) ==
    LET Format(key) == Contains(S_schema, key) \/ Contains(S_content, key)
        RequestChange(key) ==
            /\ Contains(S_requestBody, key) /\ Format(key)
            /\ StrTruthy(ExtractOperationFromKey(key))
        ResponseChange(key) ==
            /\ Contains(S_responses, key) /\ Format(key)
            /\ StrTruthy(ExtractOperationFromKey(key))
        RequestContent(item) ==
            /\ Contains(S_requestBody, item) /\ Contains(S_content, item)
            /\ StrTruthy(ExtractOperationFromKey(item))
        ResponseContent(item) ==
            /\ ~(Contains(S_requestBody, item) /\ Contains(S_content, item))
            /\ Contains(S_responses, item) /\ Contains(S_content, item)
            /\ StrTruthy(ExtractOperationFromKey(item))
        NewContentType(item) == ExtractOperationFromKey(item) \o S_new_content_type
        keys == ValuesChangedKeys(diff)
        items == diff.dictionary_item_added
        request_format_changes ==
            The({ [n \in 1..Len(h) |-> ExtractOperationFromKey(h[n])] :
                  h \in {SelectSeq(keys, RequestChange)} })
            \o The({ [n \in 1..Len(h) |-> NewContentType(h[n])] :
                     h \in {SelectSeq(items, RequestContent)} })
        response_format_changes ==
            The({ [n \in 1..Len(h) |-> ExtractOperationFromKey(h[n])] :
                  h \in {SelectSeq(keys, ResponseChange)} })
            \o The({ [n \in 1..Len(h) |-> NewContentType(h[n])] :
                     h \in {SelectSeq(items, ResponseContent)} })
    IN  [added |-> changes.added,
         changed |-> PutIf(PutIf(changes.changed, S_request_formats,
                                 ListOfSet(request_format_changes)),
                           S_response_formats, ListOfSet(response_format_changes)),
         removed |-> changes.removed]

\* "components.securitySchemes" and f"components.{comp_type}"
ComponentPath(comp_type) == S_components \o S_dot \o comp_type

\* _process_security_changes
ProcessSecurityChanges(diff, changes, previous_spec, current_spec) ==
    LET keys == ValuesChangedKeys(diff)
        IsGlobal(key) == key = S_root \o S_bq \o S_security \o S_qb
        Marker(key) == S_global_marker
        IsOperationSecurity(key) ==
            /\ Contains(S_security, key) /\ Contains(S_paths, key)
            /\ StrTruthy(ExtractOperationFromKey(key))
        SecurityChanged(key) == ExtractOperationFromKey(key) \o S_security_changed
        global_security_changes ==
            The({ [n \in 1..Len(h) |-> Marker(h[n])] :
                  h \in {SelectSeq(keys, IsGlobal)} })
        operation_security_changes ==
            The({ [n \in 1..Len(h) |-> SecurityChanged(h[n])] :
                  h \in {SelectSeq(keys, IsOperationSecurity)} })
        security_schemes_added ==
            ExtractComponents(diff.dictionary_item_added, ComponentPath(S_securitySchemes))
        security_schemes_removed ==
            ExtractComponents(diff.dictionary_item_removed, ComponentPath(S_securitySchemes))
    IN  [added |-> PutIf(changes.added, S_security_schemes, security_schemes_added),
         changed |-> PutIf(PutIf(changes.changed, S_global_security, global_security_changes),
                           S_operation_security, operation_security_changes),
         removed |-> PutIf(changes.removed, S_security_schemes, security_schemes_removed)]

\* components_types
components_types == <<S_schemas, S_parameters, S_responses, S_requestBodies, S_headers>>

\* One round of the loop of _process_component_changes.
ProcessComponentType(diff, changes, comp_type) ==
    LET comp_path == ComponentPath(comp_type)
        added == ExtractComponents(diff.dictionary_item_added, comp_path)
        changed == ExtractComponents(ValuesChangedKeys(diff), comp_path)
        removed == ExtractComponents(diff.dictionary_item_removed, comp_path)
    IN  [added |-> PutIf(changes.added, comp_type, added),
         changed |-> PutIf(changes.changed, comp_type, changed),
         removed |-> PutIf(changes.removed, comp_type, removed)]

\* _process_component_changes, from the n-th component type on.
RECURSIVE ProcessComponentChangesFrom(_, _, _)
ProcessComponentChangesFrom(diff, changes, n) ==
    IF n > Len(components_types) THEN changes
    ELSE The({ ProcessComponentChangesFrom(diff, c, n + 1) :
               c \in {ProcessComponentType(diff, changes, components_types[n])} })

ProcessComponentChanges(diff, changes) == ProcessComponentChangesFrom(diff, changes, 1)

\* The empty dict of one section of the report.
NoCategories == <<>>

\* _categorize_changes: each step receives the changes the one before left.
CategorizeChanges(diff, previous_spec, current_spec) ==
    LET c0 == {[added |-> NoCategories, changed |-> NoCategories, removed |-> NoCategories]}
        c1 == {ProcessPathChanges(diff, c, previous_spec, current_spec) : c \in c0}
        c2 == {ProcessOperationChanges(diff, c, previous_spec, current_spec) : c \in c1}
        c3 == {ProcessParameterChanges(diff, c, previous_spec, current_spec) : c \in c2}
        c4 == {ProcessRequestResponseChanges(diff, c, previous_spec, current_spec) : c \in c3}
        c5 == {ProcessSecurityChanges(diff, c, previous_spec, current_spec) : c \in c4}
    IN  The({ProcessComponentChanges(diff, c) : c \in c5})

\* A variant of the initial report without the security schemes; C2 does not
\* hold of a detector that returns it.
InitialVersionPathsOnly(current_spec) ==
    [added |-> (S_paths :> SetToSeq(Keys(Get(current_spec, S_paths)))),
     changed |-> NoCategories,
     removed |-> NoCategories]

\* The report of the initial version (no previous specification).
InitialVersion(current_spec) ==
    [added |->
        (S_paths :> SetToSeq(Keys(Get(current_spec, S_paths))))
        @@ (S_security_schemes :>
                SetToSeq(Keys(Get(Get(current_spec, S_components), S_securitySchemes)))),
     changed |-> NoCategories,
     removed |-> NoCategories]

\* A variant of the test that takes every categorisation for a change; C1 does
\* not hold of a detector that uses it.
AlwaysChanges(changes) == TRUE

\* changes and any(changes.values())
AnyChanges(changes) ==
    changes.added # NoCategories \/ changes.changed # NoCategories
        \/ changes.removed # NoCategories

\* What detect_changes returns when it returns no report.
NoResult == [none |-> TRUE]

\* An exception that leaves detect_changes.
Raised == [raised |-> TRUE]

\* The bootstrap branch calls .get and .keys outside the try block: they
\* raise AttributeError when the document, its paths, its components or its
\* securitySchemes is not a dict.
BootstrapRaises(current_spec) ==
    \/ ~IsDict(current_spec)
    \/ ~IsDict(Get(current_spec, S_paths))
    \/ ~IsDict(Get(current_spec, S_components))
    \/ ~IsDict(Get(Get(current_spec, S_components), S_securitySchemes))

\* The comparison of the diff branch, inside the try block (an exception in
\* it is turned into None; none arises for the documents of the model).
CompareSpecs(current_spec, previous_spec, pairing) ==
    The({ IF AnyChanges(changes) THEN changes ELSE NoResult :
          changes \in {The({ CategorizeChanges(diff, previous_spec, current_spec) :
                             diff \in {DeepDiff(previous_spec, current_spec, pairing)} })} })

\* A variant of detect_changes that tests current_spec against None only, so
\* an empty document goes on; C12 does not hold of it.
DetectChangesNoneOnly(current_spec, previous_spec, pairing) ==
    IF current_spec = None THEN NoResult
    ELSE IF ~Truthy(previous_spec)
         THEN IF BootstrapRaises(current_spec) THEN Raised ELSE InitialVersion(current_spec)
    ELSE CompareSpecs(current_spec, previous_spec, pairing)

\* detect_changes(current_spec, previous_spec)
DetectChangesResult(current_spec, previous_spec, pairing) ==
    IF ~Truthy(current_spec) THEN NoResult
    ELSE IF ~Truthy(previous_spec)
         THEN IF BootstrapRaises(current_spec) THEN Raised ELSE InitialVersion(current_spec)
    ELSE CompareSpecs(current_spec, previous_spec, pairing)

(***************************************************************************)
(* The monitor's and the notifier's reading of the result.                  *)
(***************************************************************************)
\* diff_result.get(key, default)
ResultGet(diff_result, key, default) ==
    IF key \in DOMAIN diff_result THEN diff_result[key] ELSE default

\* A variant of `if diff_result` that takes None for a report; C29 does not
\* hold of it.
ResultTruthyAlways(diff_result) == TRUE

\* `if diff_result` (main.py) and `if not diff_result` (send_notification):
\* None is falsy, a dict with the three sections is not.
ResultTruthy(diff_result) == diff_result # NoResult

\* _prepare_payload, the fields computed from the result's breaking verdict.
PreparePayload(diff_result) ==
    [has_breaking_changes |-> ResultGet(diff_result, "has_breaking_changes", FALSE),
     breaking_changes |-> ResultGet(diff_result, "breaking_changes", <<>>)]

\* check_for_changes logs the breaking warning when this holds;
\* diff_result.get('has_breaking_changes') is None without the key.
BreakingWarning(diff_result) ==
    ResultGet(diff_result, "has_breaking_changes", FALSE) = TRUE

\* fetch_current_spec: the published document when it is a JSON object that
\* passes validation, else None (the validator's rules on the content of an
\* object are not modelled).
FetchCurrentSpec(published) == IF IsDict(published) THEN published ELSE None

\* A variant of update_stored_specs that writes nothing; C30 does not hold of
\* a monitor that stores so.
UpdateStoredSpecsNothing(new_spec, current_file, previous_file) ==
    <<current_file, previous_file>>

\* A variant of update_stored_specs that never moves the current file to the
\* previous one; C24 does not hold of it.
UpdateStoredSpecsNoRotation(new_spec, current_file, previous_file) ==
    IF new_spec = None THEN <<current_file, previous_file>>
    ELSE <<new_spec, previous_file>>

\* What update_stored_specs(new_spec) returns.
UpdateStoredSpecsReturns(new_spec) == new_spec # None

\* update_stored_specs(new_spec): <<current file, previous file>> afterwards.
UpdateStoredSpecs(new_spec, current_file, previous_file) ==
    IF new_spec = None THEN <<current_file, previous_file>>
    ELSE <<new_spec, IF Truthy(current_file) THEN current_file ELSE previous_file>>

(***************************************************************************)
(* The documents of the model.                                              *)
(***************************************************************************)
PathKeys == {<<"/", "a">>, <<"/", "b">>}
DocMethods == {S_get, S_post}
SchemeNames == {<<"k", "1">>, <<"k", "2">>}

\* A parameter object, an operation object and a security scheme object.
Parameter(required) ==
    Dict((S_name :> Str(<<"i", "d">>)) @@ (S_required :> Bool(required)))
Operation0 ==
    Dict((S_summary :> Str(<<"s">>)) @@ (S_parameters :> List(<<Parameter(FALSE)>>)))
Scheme0 == Dict(<<"t">> :> Str(<<"h">>))

\* d with d[key] = value, and d without key.
With(d, key, value) == Dict((key :> value) @@ d.v)
DropKey(d, key) == Dict([x \in Keys(d) \ {key} |-> d.v[x]])

\* A document with paths and security schemes, and one without a paths key.
BareDoc == Dict(S_components :> Dict(S_securitySchemes :> Dict(<<"k", "1">> :> Scheme0)))
BaseDoc ==
    With(BareDoc, S_paths,
         Dict(<<"/", "a">> :> Dict((S_get :> Operation0) @@ (S_post :> Operation0))))

\* A specification extension key of the paths object: it names no path.
ExtensionKey == <<"x", "-", "g">>

\* A security requirement object, and a schema object.
Requirement(name) == Dict(name :> List(<<>>))
Schema0 == Dict(S_type :> Str(<<"o">>))
SchemaNames == {<<"S", "1">>, <<"S", "2">>}

\* A document with info, a root security array of two requirements and a
\* component schema, without paths.
RichDoc ==
    Dict((S_info :> Dict(S_version :> Str(<<"1">>)))
         @@ (S_security :> List(<<Requirement(<<"k", "1">>), Requirement(<<"k", "2">>)>>))
         @@ (S_components :> Dict(S_schemas :> Dict(<<"S", "1">> :> Schema0))))

\* A JSON document that is an array, not an object.
ListDoc == List(<<Str(<<"x">>)>>)

\* A media type object with a schema of the given type, a request body with
\* one content type, and a responses object with one status code.
JsonType == <<"a", "/", "j">>
TextType == <<"t", "/", "x">>
StatusCode == <<"2", "0", "0">>
MediaType(t) == Dict(S_schema :> Dict(S_type :> Str(t)))
Body0 == Dict(S_content :> Dict(JsonType :> MediaType(<<"o">>)))
Operation1 ==
    Dict((S_requestBody :> Body0) @@ (S_responses :> Dict(StatusCode :> Body0))
         @@ Operation0.v)

\* A document whose one operation has a request body and a response.
BodyDoc == Dict(S_paths :> Dict(<<"/", "a">> :> Dict(S_post :> Operation1)))

\* What a stored file or a fetch can hold at the start: nothing, {}, or one
\* of the documents.
InitialDocs == {None, EmptyDict, BaseDoc, BareDoc, RichDoc, ListDoc, BodyDoc}

PathsOf(doc) == Get(doc, S_paths)
PathItem(doc, P) == Get(PathsOf(doc), P)
HasPath(doc, P) == IsDict(doc) /\ HasKey(PathsOf(doc), P)
HasOperation(doc, P, M) == HasPath(doc, P) /\ HasKey(PathItem(doc, P), M)
OperationOf(doc, P, M) == Get(PathItem(doc, P), M)
SchemesOf(doc) == Get(Get(doc, S_components), S_securitySchemes)

WithPathItem(doc, P, item) == With(doc, S_paths, With(PathsOf(doc), P, item))
WithOperation(doc, P, M, op) == WithPathItem(doc, P, With(PathItem(doc, P), M, op))
WithoutPath(doc, P) == With(doc, S_paths, DropKey(PathsOf(doc), P))
WithoutOperation(doc, P, M) == WithPathItem(doc, P, DropKey(PathItem(doc, P), M))
WithSchemes(doc, schemes) ==
    With(doc, S_components, With(Get(doc, S_components), S_securitySchemes, schemes))

SchemasOf(doc) == Get(Get(doc, S_components), S_schemas)
HasSchemas(doc) == IsDict(doc) /\ HasKey(Get(doc, S_components), S_schemas)
WithSchema(doc, N, schema) ==
    With(doc, S_components,
         With(Get(doc, S_components), S_schemas, With(SchemasOf(doc), N, schema)))
WithoutSchema(doc, N) ==
    With(doc, S_components,
         With(Get(doc, S_components), S_schemas, DropKey(SchemasOf(doc), N)))

\* The operation with its first parameter's required set to b.
WithRequired(op, b) ==
    With(op, S_parameters, List([Get(op, S_parameters).v EXCEPT ![1] = Parameter(b)]))

\* A second parameter object, and the operation with it appended.
NewParameter(required) ==
    Dict((S_name :> Str(<<"q">>)) @@ (S_required :> Bool(required)))
WithParameter(op, parameter) ==
    With(op, S_parameters, List(Append(Get(op, S_parameters).v, parameter)))
RequiredOf(op) == Get(op, S_parameters).v[1].v[S_required].v

\* The request body of an operation or the body of its response, by the key
\* part of the operation that holds it; the operation with that body replaced.
BodyParts == {S_requestBody, S_responses}
HasBody(op, part) == IsDict(op) /\ HasKey(op, part)
BodyOf(op, part) ==
    IF part = S_requestBody THEN Get(op, S_requestBody)
    ELSE Get(Get(op, S_responses), StatusCode)
WithBody(op, part, body) ==
    IF part = S_requestBody THEN With(op, S_requestBody, body)
    ELSE With(op, S_responses, With(Get(op, S_responses), StatusCode, body))
WithMediaType(body, ct, media) ==
    With(body, S_content, With(Get(body, S_content), ct, media))
SchemaTypeOf(body, ct) == Get(Get(Get(Get(body, S_content), ct), S_schema), S_type)

\* seq in the opposite order.
Reverse(seq) == [n \in 1..Len(seq) |-> seq[Len(seq) + 1 - n]]

\* A path item that defines the methods of ms, each as Operation0.
NewPathItem(ms) == Dict([M \in ms |-> Operation0])

(***************************************************************************)
(* The state machine: the published document is edited, the monitor         *)
(* compares what it fetches with the stored document, notifies and stores.  *)
(***************************************************************************)
VARIABLES
    current_spec,       \* the published document, which a fetch returns
    stored_current,     \* the file of the current specification
    stored_previous,    \* the file of the previous specification
    edits,              \* how many edits the published document has had
    pc,                 \* where check_for_changes stands
    diff_result,        \* what detect_changes returned to check_for_changes
    payload,            \* the payload the notifier prepared
    notification_sent,  \* what send_notification returned
    jobs,               \* the runs of check_for_changes in the scheduler's pool
    webhook_secret,     \* config.WEBHOOK_SECRET
    clock,              \* time.time()
    handled,            \* the request the webhook server handled last, and its answer
    notifications       \* the notifications list of the webhook server

\* The state of one check_for_changes in the monitor's own thread, and what the
\* scheduler's pool and the webhook server add to it.
aside == <<jobs, webhook_secret, clock, handled, notifications>>
vars == <<current_spec, stored_current, stored_previous, edits, pc, diff_result,
          payload, notification_sent, aside>>

\* The threads of the scheduler's pool, and a thread that runs no job.
Workers == {1, 2}
IdleJob ==
    [pc |-> "idle", current_spec |-> None, stored_current |-> None,
     diff_result |-> NoResult, notification_sent |-> FALSE]
NoJobs == [w \in Workers |-> IdleJob]

\* The webhook server before any request: no secret matters to the monitor.
NoRequest == [none |-> TRUE]
ServerAtRest ==
    /\ webhook_secret = <<>>
    /\ clock = 0
    /\ handled = NoRequest
    /\ notifications = <<>>

NoPayload == [none |-> TRUE]

Init ==
    /\ stored_current \in InitialDocs
    /\ current_spec \in (IF Truthy(stored_current)
                          THEN {stored_current, None, EmptyDict}
                          ELSE InitialDocs)
    /\ stored_previous = None
    /\ edits = 0
    /\ pc = "boot"
    /\ diff_result = NoResult
    /\ payload = NoPayload
    /\ notification_sent = FALSE
    /\ jobs = NoJobs
    /\ ServerAtRest

\* start(): with no stored specification, the fetched document is stored as the
\* initial version; then the checks are scheduled.
Start ==
    /\ pc = "boot"
    /\ \E fetched \in {FetchCurrentSpec(current_spec)} :
          IF ~Truthy(stored_current) /\ Truthy(fetched)
          THEN /\ stored_current' =
                      UpdateStoredSpecs(fetched, stored_current, stored_previous)[1]
               /\ stored_previous' =
                      UpdateStoredSpecs(fetched, stored_current, stored_previous)[2]
          ELSE UNCHANGED <<stored_current, stored_previous>>
    /\ pc' = "input"
    /\ UNCHANGED <<current_spec, edits, diff_result, payload, notification_sent>>
    /\ UNCHANGED aside

\* --check-now: the monitor is not started, a check is run at once.
CheckNow ==
    /\ pc = "boot"
    /\ pc' = "input"
    /\ UNCHANGED <<current_spec, stored_current, stored_previous, edits, diff_result,
                   payload, notification_sent>>
    /\ UNCHANGED aside

\* The published document becomes doc.
Edit(doc) ==
    /\ pc = "input"
    /\ edits < MaxEdits
    /\ current_spec' = doc
    /\ edits' = edits + 1
    /\ UNCHANGED <<stored_current, stored_previous, pc, diff_result, payload,
                   notification_sent>>
    /\ UNCHANGED aside

AddPath ==
    \E P \in PathKeys, ms \in SUBSET DocMethods \ {{}} :
        /\ IsDict(current_spec) /\ ~HasPath(current_spec, P)
        /\ Edit(WithPathItem(current_spec, P, NewPathItem(ms)))

RemovePath ==
    \E P \in PathKeys :
        /\ HasPath(current_spec, P)
        /\ Edit(WithoutPath(current_spec, P))

AddMethod ==
    \E P \in PathKeys, M \in DocMethods :
        /\ HasPath(current_spec, P) /\ ~HasOperation(current_spec, P, M)
        /\ Edit(WithOperation(current_spec, P, M, Operation0))

RemoveMethod ==
    \E P \in PathKeys, M \in DocMethods :
        /\ HasOperation(current_spec, P, M)
        /\ Edit(WithoutOperation(current_spec, P, M))

FlipRequired ==
    \E P \in PathKeys, M \in DocMethods :
        /\ HasOperation(current_spec, P, M)
        /\ Edit(WithOperation(current_spec, P, M,
                    WithRequired(OperationOf(current_spec, P, M),
                                 ~RequiredOf(OperationOf(current_spec, P, M)))))

ChangeSummary ==
    \E P \in PathKeys, M \in DocMethods :
        /\ HasOperation(current_spec, P, M)
        /\ Edit(WithOperation(current_spec, P, M,
                    With(OperationOf(current_spec, P, M), S_summary,
                         IF Get(OperationOf(current_spec, P, M), S_summary) = Str(<<"s">>)
                         THEN Str(<<"t">>) ELSE Str(<<"s">>))))

AddDescription ==
    \E P \in PathKeys, M \in DocMethods :
        /\ HasOperation(current_spec, P, M)
        /\ ~HasKey(OperationOf(current_spec, P, M), S_description)
        /\ Edit(WithOperation(current_spec, P, M,
                    With(OperationOf(current_spec, P, M), S_description, Str(<<"d">>))))

AddSecurityScheme ==
    \E name \in SchemeNames :
        /\ IsDict(current_spec) /\ ~HasKey(SchemesOf(current_spec), name)
        /\ Edit(WithSchemes(current_spec, With(SchemesOf(current_spec), name, Scheme0)))

RemoveSecurityScheme ==
    \E name \in SchemeNames :
        /\ IsDict(current_spec) /\ HasKey(SchemesOf(current_spec), name)
        /\ Edit(WithSchemes(current_spec, DropKey(SchemesOf(current_spec), name)))

\* An operation gets a second parameter, required or not.
AddParameter ==
    \E P \in PathKeys, M \in DocMethods, required \in BOOLEAN :
        /\ HasOperation(current_spec, P, M)
        /\ Len(Get(OperationOf(current_spec, P, M), S_parameters).v) = 1
        /\ Edit(WithOperation(current_spec, P, M,
                    WithParameter(OperationOf(current_spec, P, M), NewParameter(required))))

\* A path item gets a summary, a field that is not a method.
AddPathSummary ==
    \E P \in PathKeys :
        /\ HasPath(current_spec, P) /\ ~HasKey(PathItem(current_spec, P), S_summary)
        /\ Edit(WithPathItem(current_spec, P,
                    With(PathItem(current_spec, P), S_summary, Str(<<"s">>))))

\* The schema type of the JSON body of a request or of a response changes.
ChangeBodySchema ==
    \E P \in PathKeys, M \in DocMethods, part \in BodyParts :
        /\ HasOperation(current_spec, P, M)
        /\ HasBody(OperationOf(current_spec, P, M), part)
        /\ Edit(WithOperation(current_spec, P, M,
                    WithBody(OperationOf(current_spec, P, M), part,
                        WithMediaType(BodyOf(OperationOf(current_spec, P, M), part), JsonType,
                            IF SchemaTypeOf(BodyOf(OperationOf(current_spec, P, M), part),
                                            JsonType) = Str(<<"o">>)
                            THEN MediaType(<<"a">>) ELSE MediaType(<<"o">>)))))

\* The body of a request or of a response gets a second content type.
AddContentType ==
    \E P \in PathKeys, M \in DocMethods, part \in BodyParts :
        /\ HasOperation(current_spec, P, M)
        /\ HasBody(OperationOf(current_spec, P, M), part)
        /\ ~HasKey(Get(BodyOf(OperationOf(current_spec, P, M), part), S_content), TextType)
        /\ Edit(WithOperation(current_spec, P, M,
                    WithBody(OperationOf(current_spec, P, M), part,
                        WithMediaType(BodyOf(OperationOf(current_spec, P, M), part), TextType,
                                      MediaType(<<"o">>)))))

AddSchema ==
    \E N \in SchemaNames :
        /\ HasSchemas(current_spec) /\ ~HasKey(SchemasOf(current_spec), N)
        /\ Edit(WithSchema(current_spec, N, Schema0))

RemoveSchema ==
    \E N \in SchemaNames :
        /\ HasSchemas(current_spec) /\ HasKey(SchemasOf(current_spec), N)
        /\ Edit(WithoutSchema(current_spec, N))

\* The type of a schema object changes.
ChangeSchema ==
    \E N \in SchemaNames :
        /\ HasSchemas(current_spec) /\ HasKey(SchemasOf(current_spec), N)
        /\ IsDict(Get(SchemasOf(current_spec), N))
        /\ Edit(WithSchema(current_spec, N,
                    With(Get(SchemasOf(current_spec), N), S_type,
                         IF Get(Get(SchemasOf(current_spec), N), S_type) = Str(<<"o">>)
                         THEN Str(<<"a">>) ELSE Str(<<"o">>))))

\* A schema object gets a description.
ExtendSchema ==
    \E N \in SchemaNames :
        /\ HasSchemas(current_spec) /\ HasKey(SchemasOf(current_spec), N)
        /\ IsDict(Get(SchemasOf(current_spec), N))
        /\ ~HasKey(Get(SchemasOf(current_spec), N), S_description)
        /\ Edit(WithSchema(current_spec, N,
                    With(Get(SchemasOf(current_spec), N), S_description, Str(<<"d">>))))

\* A schema object is replaced by a scalar.
ReplaceSchema ==
    \E N \in SchemaNames :
        /\ HasSchemas(current_spec) /\ HasKey(SchemasOf(current_spec), N)
        /\ IsDict(Get(SchemasOf(current_spec), N))
        /\ Edit(WithSchema(current_spec, N, Str(<<"v">>)))

\* info.version changes.
ChangeVersion ==
    /\ IsDict(current_spec) /\ HasKey(current_spec, S_info)
    /\ Edit(With(current_spec, S_info,
                 With(Get(current_spec, S_info), S_version,
                      IF Get(Get(current_spec, S_info), S_version) = Str(<<"1">>)
                      THEN Str(<<"2">>) ELSE Str(<<"1">>))))

\* The paths object gets an extension field.
AddPathsExtension ==
    /\ IsDict(current_spec) /\ HasKey(current_spec, S_paths)
    /\ ~HasKey(PathsOf(current_spec), ExtensionKey)
    /\ Edit(With(current_spec, S_paths,
                 With(PathsOf(current_spec), ExtensionKey, Str(<<"v">>))))

\* The root security array loses its last requirement.
RemoveRequirement ==
    /\ IsDict(current_spec) /\ HasKey(current_spec, S_security)
    /\ Len(Get(current_spec, S_security).v) >= 1
    /\ Edit(With(current_spec, S_security,
                 List(SubSeq(Get(current_spec, S_security).v, 1,
                             Len(Get(current_spec, S_security).v) - 1))))

\* The root security array gets one more requirement.
AddRequirement ==
    /\ IsDict(current_spec) /\ HasKey(current_spec, S_security)
    /\ Requirement(<<"k", "3">>) \notin Range(Get(current_spec, S_security).v)
    /\ Edit(With(current_spec, S_security,
                 List(Append(Get(current_spec, S_security).v, Requirement(<<"k", "3">>)))))

\* The first requirement of the root security array gets a scope.
EditRequirement ==
    /\ IsDict(current_spec) /\ HasKey(current_spec, S_security)
    /\ Len(Get(current_spec, S_security).v) >= 1
    /\ \E name \in Keys(Get(current_spec, S_security).v[1]) :
          /\ Get(current_spec, S_security).v[1] = Requirement(name)
          /\ Edit(With(current_spec, S_security,
                       List([Get(current_spec, S_security).v EXCEPT
                                ![1] = Dict(name :> List(<<Str(<<"r">>)>>))])))

\* The root security array is published in the opposite order.
PermuteSecurity ==
    /\ IsDict(current_spec) /\ HasKey(current_spec, S_security)
    /\ Edit(With(current_spec, S_security, List(Reverse(Get(current_spec, S_security).v))))

\* check_for_changes when fetch_current_spec returns nothing: the error is
\* logged.
FetchFailed ==
    /\ pc = "input"
    /\ ~Truthy(FetchCurrentSpec(current_spec))
    /\ pc' = "failed"
    /\ UNCHANGED <<current_spec, stored_current, stored_previous, edits, diff_result,
                   payload, notification_sent>>
    /\ UNCHANGED aside

\* The return that follows the failed fetch.
Return ==
    /\ pc = "failed"
    /\ pc' = "input"
    /\ UNCHANGED <<current_spec, stored_current, stored_previous, edits, diff_result,
                   payload, notification_sent>>
    /\ UNCHANGED aside

\* check_for_changes up to the return of detect_changes(current_spec,
\* stored_current).  pairing is whether DeepDiff pairs the unmatched items of
\* two lists.
DetectChanges ==
    /\ pc = "input"
    /\ \E pairing \in BOOLEAN :
          \E result \in {DetectChangesResult(current_spec, stored_current, pairing)} :
              /\ diff_result' = result
              /\ pc' = IF result = Raised THEN "raised" ELSE "detected"
    /\ UNCHANGED <<current_spec, stored_current, stored_previous, edits, payload,
                   notification_sent>>
    /\ UNCHANGED aside

\* The exception of detect_changes leaves check_for_changes: nothing is sent
\* and nothing is stored.
Abort ==
    /\ pc = "raised"
    /\ pc' = "input"
    /\ diff_result' = NoResult
    /\ UNCHANGED <<current_spec, stored_current, stored_previous, edits, payload,
                   notification_sent>>
    /\ UNCHANGED aside

\* `if diff_result:` send_notification prepares the payload and posts it; ok
\* is whether the receiver answered with a 2xx status.
Notify ==
    /\ pc = "detected"
    /\ ResultTruthy(diff_result)
    /\ payload' = PreparePayload(diff_result)
    /\ \E ok \in BOOLEAN : notification_sent' = ok
    /\ pc' = "notified"
    /\ UNCHANGED <<current_spec, stored_current, stored_previous, edits, diff_result>>
    /\ UNCHANGED aside

\* `if notification_sent:` update_stored_specs(current_spec), and return.
StoreSpecs ==
    /\ pc = "notified"
    /\ notification_sent
    /\ stored_current' = UpdateStoredSpecs(current_spec, stored_current, stored_previous)[1]
    /\ stored_previous' = UpdateStoredSpecs(current_spec, stored_current, stored_previous)[2]
    /\ pc' = "input"
    /\ diff_result' = NoResult
    /\ payload' = NoPayload
    /\ notification_sent' = FALSE
    /\ UNCHANGED <<current_spec, edits>>
    /\ UNCHANGED aside

\* The notification failed: nothing is stored.
KeepSpecs ==
    /\ pc = "notified"
    /\ ~notification_sent
    /\ pc' = "input"
    /\ diff_result' = NoResult
    /\ payload' = NoPayload
    /\ UNCHANGED <<current_spec, stored_current, stored_previous, edits, notification_sent>>
    /\ UNCHANGED aside

\* The else branch of `if diff_result:`.
NoChanges ==
    /\ pc = "detected"
    /\ ~ResultTruthy(diff_result)
    /\ pc' = "input"
    /\ UNCHANGED <<current_spec, stored_current, stored_previous, edits, diff_result,
                   payload, notification_sent>>
    /\ UNCHANGED aside

Next ==
    \/ Start
    \/ CheckNow
    \/ AddPath
    \/ RemovePath
    \/ AddMethod
    \/ RemoveMethod
    \/ FlipRequired
    \/ ChangeSummary
    \/ AddDescription
    \/ AddSecurityScheme
    \/ RemoveSecurityScheme
    \/ AddParameter
    \/ AddPathSummary
    \/ ChangeBodySchema
    \/ AddContentType
    \/ AddSchema
    \/ RemoveSchema
    \/ ChangeSchema
    \/ ExtendSchema
    \/ ReplaceSchema
    \/ RemoveRequirement
    \/ AddRequirement
    \/ EditRequirement
    \/ PermuteSecurity
    \/ ChangeVersion
    \/ AddPathsExtension
    \/ FetchFailed
    \/ Return
    \/ DetectChanges
    \/ Abort
    \/ Notify
    \/ StoreSpecs
    \/ KeepSpecs
    \/ NoChanges

Spec == Init /\ [][Next]_vars

\* The steps of the monitor: start() and the scheduled check_for_changes.
Check ==
    \/ Start
    \/ CheckNow
    \/ FetchFailed
    \/ Return
    \/ DetectChanges
    \/ Abort
    \/ Notify
    \/ StoreSpecs
    \/ KeepSpecs
    \/ NoChanges

\* send_notification returns True: the receiver answered with a 2xx status.
Delivered == Notify /\ notification_sent'

\* The interval job runs check_for_changes again and again, each run goes on
\* to its return, and a delivery that is tried again and again succeeds.
SpecLive == Init /\ [][Next]_vars /\ WF_vars(Check) /\ SF_vars(Delivered)

(***************************************************************************)
(* The webhook server and the headers the notifier signs its requests with. *)
(***************************************************************************)
\* The seconds a timestamp may be away from the server's clock.
tolerance == 300

\* The clock advances by Step seconds up to MaxClock; the server's list is
\* followed up to MaxNotifications entries.
Step == 200
MaxClock == 400
MaxNotifications == 2
Times == {t \in 0..MaxClock : t % Step = 0}

\* A header of a request: absent (Header(None)), an ASCII text, the hexdigest
\* of an HMAC, or a text with a character outside ASCII (header bytes are
\* decoded as latin-1).
NoHeader == [kind |-> "none"]
Text(text) == [kind |-> "text", text |-> text]
Latin1Header == [kind |-> "latin1"]
HeaderTruthy(header) == header # NoHeader /\ header # Text(<<>>)

\* hmac.new(key, message, sha256).hexdigest(): equal digests have equal keys
\* and messages.
Hexdigest(key, message) == [kind |-> "mac", key |-> key, message |-> message]

\* f"{timestamp}.{payload_str}"
SignatureMessage(timestamp, body_str) == timestamp \o S_dot \o body_str

\* int(text) of a text, which raises ValueError unless the text is a numeral
\* (signs, blanks and underscores are not among the texts of the model).
IsNumeral(text) == Len(text) > 0 /\ \A i \in 1..Len(text) : \E n \in 1..10 : Digits[n] = text[i]
RECURSIVE IntOf(_)
IntOf(text) ==
    IF Len(text) = 0 THEN 0
    ELSE 10 * IntOf(SubSeq(text, 1, Len(text) - 1))
         + (CHOOSE n \in 0..9 : Digits[n + 1] = text[Len(text)])
Abs(i) == IF i < 0 THEN 0 - i ELSE i

\* The bytes of a body: UTF-8 text, or bytes that body.decode('utf-8') rejects.
Body(text) == [utf8 |-> TRUE, text |-> text]
UndecodableBody == [utf8 |-> FALSE, text |-> <<>>]

\* json.loads of a body text: an object, a number, or JSONDecodeError.
JsonError == [kind |-> "error"]
ParseJson(text) ==
    IF text = <<"{", "}">> THEN [kind |-> "dict"]
    ELSE IF IsNumeral(text) THEN [kind |-> "int", v |-> IntOf(text)]
    ELSE JsonError

\* abs(current_time - timestamp) > 300
Expired(now, timestamp) == Abs(now - timestamp) > tolerance

\* verify_signature: "verified", or the status of the error response.  An
\* HTTPException gives its status 401; any other exception leaves the
\* dependency and the framework answers 500.
VerifySignature(request, secret, now) ==
    IF secret = <<>> THEN "verified"
    ELSE IF ~HeaderTruthy(request.timestamp) \/ ~HeaderTruthy(request.signature) THEN "401"
    ELSE IF request.timestamp.kind # "text" THEN "401"
    ELSE IF ~IsNumeral(request.timestamp.text) THEN "401"
    ELSE IF Expired(now, IntOf(request.timestamp.text)) THEN "401"
    ELSE IF ~request.body.utf8 THEN "500"
    ELSE IF request.signature.kind = "latin1" THEN "500"
    ELSE IF request.signature
               # Hexdigest(secret, SignatureMessage(request.timestamp.text, request.body.text))
         THEN "401"
    ELSE "verified"

\* webhook_handler behind its dependency: the status of the response and the
\* payloads appended to notifications.  request.json() raises on a body that is
\* not JSON; payload.get raises, after the append, on a payload that is no
\* object.
WebhookHandler(request, secret, now) ==
    The({ IF verified # "verified" THEN [status |-> verified, appended |-> <<>>]
          ELSE IF ~request.body.utf8 \/ ParseJson(request.body.text) = JsonError
               THEN [status |-> "500", appended |-> <<>>]
          ELSE [status |-> IF ParseJson(request.body.text).kind = "dict"
                           THEN "200" ELSE "500",
                appended |-> <<[received_at |-> now,
                                payload |-> ParseJson(request.body.text)]>>] :
          verified \in {VerifySignature(request, secret, now)} })

\* _generate_headers_with_payload(payload_str) at time now, with the body.
GenerateHeadersWithPayload(payload_str, secret, now) ==
    IF secret # <<>>
    THEN [timestamp |-> Text(IntStr(now)),
          signature |-> Hexdigest(secret, SignatureMessage(IntStr(now), payload_str)),
          body |-> Body(payload_str)]
    ELSE [timestamp |-> NoHeader, signature |-> NoHeader, body |-> Body(payload_str)]

\* json.dumps(payload, sort_keys=True) of a payload, which is an object.
PayloadStr == <<"{", "}">>

\* The secret of the deployment, and a key that is not it.
Secret == <<"s">>
OtherKey == <<"w">>

\* The requests that do not come from the notifier as it signed them: any
\* timestamp header, any body, and a signature header that is absent, empty,
\* not ASCII, made with another key, or copied from a signed notification.
OtherRequests ==
    { [timestamp |-> timestamp, signature |-> signature, body |-> body] :
        timestamp \in {NoHeader, Text(<<>>), Text(<<"x">>)} \cup {Text(IntStr(t)) : t \in Times},
        signature \in {NoHeader, Text(<<>>), Latin1Header}
                      \cup {Hexdigest(key, SignatureMessage(IntStr(t), PayloadStr)) :
                               key \in {Secret, OtherKey}, t \in Times},
        body \in {Body(PayloadStr), Body(<<"1">>), Body(<<"x">>), UndecodableBody} }

\* The server answers one request.
Handle(request) ==
    /\ Len(notifications) < MaxNotifications
    /\ \E answer \in {WebhookHandler(request, webhook_secret, clock)} :
          /\ handled' = [request |-> request, now |-> clock, status |-> answer.status]
          /\ notifications' = notifications \o answer.appended
    /\ UNCHANGED <<current_spec, stored_current, stored_previous, edits, pc, diff_result,
                   payload, notification_sent, jobs, webhook_secret, clock>>

\* A notification of the notifier arrives, at once, late or once more.
ReceiveNotification ==
    \E sent \in Times :
        /\ sent <= clock
        /\ Handle(GenerateHeadersWithPayload(PayloadStr, webhook_secret, sent))

\* Any other request arrives.
ReceiveOther ==
    \E request \in OtherRequests :
        /\ \A sent \in Times :
              sent <= clock =>
                  request # GenerateHeadersWithPayload(PayloadStr, webhook_secret, sent)
        /\ Handle(request)

\* Time passes.
Tick ==
    /\ clock + Step <= MaxClock
    /\ clock' = clock + Step
    /\ UNCHANGED <<current_spec, stored_current, stored_previous, edits, pc, diff_result,
                   payload, notification_sent, jobs, webhook_secret, handled, notifications>>

\* The server starts with an empty list, with or without a secret configured.
InitWebhook ==
    /\ webhook_secret \in {<<>>, Secret}
    /\ clock = 0
    /\ handled = NoRequest
    /\ notifications = <<>>
    /\ current_spec = None /\ stored_current = None /\ stored_previous = None
    /\ edits = 0 /\ pc = "boot" /\ diff_result = NoResult /\ payload = NoPayload
    /\ notification_sent = FALSE /\ jobs = NoJobs

NextWebhook ==
    \/ ReceiveNotification
    \/ ReceiveOther
    \/ Tick

SpecWebhook == InitWebhook /\ [][NextWebhook]_vars

(***************************************************************************)
(* Properties.  A comparison is read in the state where detect_changes has  *)
(* returned: stored_current is its previous_spec, current_spec its           *)
(* current_spec and diff_result what it returned.                           *)
(***************************************************************************)
\* The list report[section][key], empty when there is no report or no such key.
ReportList(report, section, key) ==
    IF ResultTruthy(report) /\ key \in DOMAIN report[section]
    THEN report[section][key]
    ELSE <<>>

NoDuplicates(seq) == \A i, j \in 1..Len(seq) : seq[i] = seq[j] => i = j

\* How many entries of seq are e.
Count(seq, e) == Cardinality({i \in 1..Len(seq) : seq[i] = e})

Sections == {"added", "changed", "removed"}

\* The entry "M-uppercase P" of an operation.
OperationEntry(M, P) == Upper(M) \o <<" ">> \o P

\* C1: comparing a non-empty document with itself returns no report (None),
\* so no category of added, changed or removed is populated.
C1_Idempotence ==
    (pc = "detected" /\ Truthy(current_spec) /\ current_spec = stored_current)
        => diff_result = NoResult

\* A document edited and edited back is compared with its stored copy.
C1_Witness ==
    /\ pc = "detected" /\ edits > 0
    /\ IsDict(current_spec) /\ current_spec = stored_current
    /\ Keys(PathsOf(current_spec)) # {}
    /\ diff_result = NoResult

IsRequiredFlip(previous, current, P, M) ==
    /\ HasOperation(previous, P, M)
    /\ RequiredOf(OperationOf(previous, P, M)) = FALSE
    /\ current = WithOperation(previous, P, M,
                               WithRequired(OperationOf(previous, P, M), TRUE))

\* C3: when the documents differ only by one parameter's required flipped from
\* false to true, the report has added.required_parameters with exactly the
\* one entry "M P parameter" and every other category is empty.
C3_RequiredFlip ==
    \A P \in PathKeys, M \in DocMethods :
        (pc = "detected" /\ IsRequiredFlip(stored_current, current_spec, P, M)) =>
            diff_result =
                [added |-> (S_required_parameters :> <<OperationEntry(M, P) \o S_parameter>>),
                 changed |-> NoCategories,
                 removed |-> NoCategories]

\* C4: when current is previous plus a new method M under a path P that
\* previous already has, changed.operations contains "M P" and added.paths
\* does not contain P.
C4_MethodOnExistingPath ==
    \A P \in PathKeys, M \in DocMethods :
        ( /\ pc = "detected"
          /\ HasPath(stored_current, P) /\ ~HasOperation(stored_current, P, M)
          /\ HasOperation(current_spec, P, M)
          /\ WithoutOperation(current_spec, P, M) = stored_current ) =>
            /\ OperationEntry(M, P) \in Range(ReportList(diff_result, "changed", S_operations))
            /\ P \notin Range(ReportList(diff_result, "added", S_paths))

\* C5: when current is previous plus a new path P that defines one or more
\* methods, added.paths = [P] and added.operations contains "M P" for every
\* method M defined under P.
C5_NewPath ==
    \A P \in PathKeys :
        ( /\ pc = "detected"
          /\ IsDict(stored_current) /\ ~HasPath(stored_current, P)
          /\ HasPath(current_spec, P) /\ Keys(PathItem(current_spec, P)) # {}
          /\ WithoutPath(current_spec, P) = stored_current ) =>
            /\ ReportList(diff_result, "added", S_paths) = <<P>>
            /\ \A M \in Keys(PathItem(current_spec, P)) :
                  OperationEntry(M, P) \in Range(ReportList(diff_result, "added", S_operations))

\* current is previous without the method M of P, which keeps another method.
IsOperationRemoval(previous, current, P, M) ==
    /\ HasOperation(previous, P, M)
    /\ Keys(PathItem(previous, P)) \cap DocMethods # {M}
    /\ current = WithoutOperation(previous, P, M)

\* C6: when current is previous without one method M of a path P that keeps
\* another method, removed.operations is exactly ["M P"].
C6_RemoveOperation ==
    \A P \in PathKeys, M \in DocMethods :
        (pc = "detected" /\ IsOperationRemoval(stored_current, current_spec, P, M)) =>
            ReportList(diff_result, "removed", S_operations) = <<OperationEntry(M, P)>>

\* post is removed from /a, which keeps get.
C6_Witness ==
    /\ pc = "detected"
    /\ IsOperationRemoval(stored_current, current_spec, <<"/", "a">>, S_post)
    /\ ReportList(diff_result, "removed", S_operations)
           = <<<<"P", "O", "S", "T", " ", "/", "a">>>>

\* C7: for non-empty documents, a path of current that previous has not is in
\* added.paths, and a path of previous that current has not is in
\* removed.paths.
C7_PathSymmetry ==
    \A P \in PathKeys :
        (pc = "detected" /\ Truthy(stored_current) /\ Truthy(current_spec)) =>
            /\ (HasPath(current_spec, P) /\ ~HasPath(stored_current, P))
                  => P \in Range(ReportList(diff_result, "added", S_paths))
            /\ (HasPath(stored_current, P) /\ ~HasPath(current_spec, P))
                  => P \in Range(ReportList(diff_result, "removed", S_paths))

\* The breaking predicate over a report.
Breaking(report) ==
    \/ ReportList(report, "removed", S_paths) # <<>>
    \/ ReportList(report, "removed", S_operations) # <<>>
    \/ ReportList(report, "added", S_required_parameters) # <<>>

\* C8: the result handed to the caller and the payload of the notifier are
\* marked breaking exactly when the report has removed paths, removed
\* operations or added required parameters.
C8_BreakingVerdict ==
    /\ (pc \in {"detected", "notified"} /\ ResultTruthy(diff_result))
          => BreakingWarning(diff_result) = Breaking(diff_result)
    /\ pc = "notified"
          => payload.has_breaking_changes = Breaking(diff_result)

\* C9: no category list of a report holds an entry twice.
C9_Uniqueness ==
    (pc = "detected" /\ ResultTruthy(diff_result)) =>
        \A section \in Sections :
            \A key \in DOMAIN diff_result[section] :
                NoDuplicates(diff_result[section][key])

\* C10: when a value under an operation M of a path P that both documents
\* have is changed, changed.operations contains "M P" exactly once.
C10_NestedCollapse ==
    \A P \in PathKeys, M \in DocMethods :
        ( /\ pc = "detected"
          /\ HasOperation(stored_current, P, M) /\ HasOperation(current_spec, P, M)
          /\ Get(OperationOf(stored_current, P, M), S_summary)
                # Get(OperationOf(current_spec, P, M), S_summary) ) =>
            Count(ReportList(diff_result, "changed", S_operations), OperationEntry(M, P)) = 1

\* The diff of two documents that do not differ.
EmptyDiff ==
    [dictionary_item_added |-> <<>>, dictionary_item_removed |-> <<>>,
     iterable_item_added |-> <<>>, iterable_item_removed |-> <<>>,
     type_changes |-> <<>>, values_changed |-> <<>>]

\* current is previous with the root security array in the opposite order.
IsPermutation(previous, current) ==
    /\ IsDict(previous) /\ HasKey(previous, S_security)
    /\ current = With(previous, S_security, List(Reverse(Get(previous, S_security).v)))
    /\ current # previous

\* C11: when current is a non-empty previous with the elements of a sequence
\* (the root security array) permuted, the diff is empty and detect_changes
\* returns no report.  The key order of a mapping is not part of a dict's
\* value, so two documents that differ by it alone fall under C1.
C11_OrderIndependence ==
    (pc = "detected" /\ IsPermutation(stored_current, current_spec)) =>
        /\ \A pairing \in BOOLEAN :
              DeepDiff(stored_current, current_spec, pairing) = EmptyDiff
        /\ diff_result = NoResult

\* The two requirements of the root security array are published swapped.
C11_Witness ==
    /\ pc = "detected" /\ IsPermutation(stored_current, current_spec)
    /\ Len(Get(current_spec, S_security).v) = 2
    /\ diff_result = NoResult

\* C12: detect_changes returns None whenever current_spec is None or empty,
\* whatever previous_spec is.
C12_NoCurrent ==
    (pc \in {"detected", "raised"} /\ ~Truthy(current_spec)) =>
        (pc = "detected" /\ diff_result = NoResult)

\* An empty document is compared with a stored document that has paths.
C12_Witness ==
    /\ pc = "detected" /\ current_spec = EmptyDict
    /\ IsDict(stored_current) /\ Keys(PathsOf(stored_current)) # {}
    /\ diff_result = NoResult

\* C13: detect_changes never propagates an exception to its caller, whatever
\* its inputs are.
C13_NoException == pc # "raised" /\ diff_result # Raised

\* The part of a document inside the recognised grammar: its paths whose key
\* starts with "/", its components and its root security.
Recognised(doc) ==
    [paths |-> IF HasKey(doc, S_paths)
               THEN {<<P, PathsOf(doc).v[P]>> : P \in {K \in Keys(PathsOf(doc)) : K[1] = "/"}}
               ELSE {<<>>},
     components |-> IF HasKey(doc, S_components) THEN {Get(doc, S_components)} ELSE {},
     security |-> IF HasKey(doc, S_security) THEN {Get(doc, S_security)} ELSE {}]

\* C14: differences outside the recognised grammar add no entry to any
\* category: when the documents differ only outside it, detect_changes
\* returns no report.
C14_UnparseableDropped ==
    ( /\ pc \in {"detected", "raised"}
      /\ IsDict(stored_current) /\ Truthy(stored_current)
      /\ IsDict(current_spec) /\ Truthy(current_spec)
      /\ Recognised(stored_current) = Recognised(current_spec) ) =>
        (pc = "detected" /\ diff_result = NoResult)

\* C15: the stored current snapshot is replaced only by the fetched document
\* whose report the notifier has just delivered, and a failed delivery leaves
\* both snapshots unchanged.
C15_PersistAfterDelivery ==
    [][ /\ stored_current' # stored_current
            => (pc = "notified" /\ notification_sent /\ stored_current' = current_spec)
        /\ (pc = "notified" /\ ~notification_sent)
            => UNCHANGED <<stored_current, stored_previous>> ]_vars

\* C16: when a component schema N is a mapping in previous and a scalar in
\* current, all else equal, the mismatch is one changed entry of N's location:
\* the diff has exactly one entry, a type change at N, and the report has N in
\* changed.schemas.
C16_TypeMismatch ==
    \A N \in SchemaNames :
        ( /\ pc \in {"detected", "raised"}
          /\ HasSchemas(stored_current) /\ HasKey(SchemasOf(stored_current), N)
          /\ IsDict(Get(SchemasOf(stored_current), N))
          /\ current_spec = WithSchema(stored_current, N, Str(<<"v">>)) ) =>
            /\ pc = "detected"
            /\ \A pairing \in BOOLEAN :
                  DeepDiff(stored_current, current_spec, pairing) =
                      [EmptyDiff EXCEPT !.type_changes =
                          <<S_root \o S_bq \o S_components \o S_qb \o S_bq \o S_schemas
                               \o S_qb \o S_bq \o N \o S_qb>>]
            /\ N \in Range(ReportList(diff_result, "changed", S_schemas))

\* C17: for non-empty documents and every schema name N, N is in
\* added.schemas when only current has it, in removed.schemas when only
\* previous has it, and in changed.schemas when both have it with different
\* content.
C17_ComponentClassification ==
    \A N \in SchemaNames :
        ( /\ pc \in {"detected", "raised"}
          /\ IsDict(stored_current) /\ Truthy(stored_current)
          /\ IsDict(current_spec) /\ Truthy(current_spec) ) =>
            /\ pc = "detected"
            /\ (HasKey(SchemasOf(current_spec), N) /\ ~HasKey(SchemasOf(stored_current), N))
                  => N \in Range(ReportList(diff_result, "added", S_schemas))
            /\ (HasKey(SchemasOf(stored_current), N) /\ ~HasKey(SchemasOf(current_spec), N))
                  => N \in Range(ReportList(diff_result, "removed", S_schemas))
            /\ ( /\ HasKey(SchemasOf(stored_current), N) /\ HasKey(SchemasOf(current_spec), N)
                 /\ Get(SchemasOf(stored_current), N) # Get(SchemasOf(current_spec), N) )
                  => N \in Range(ReportList(diff_result, "changed", S_schemas))

\* C18: for non-empty documents and every scheme name s, s is in
\* added.security_schemes when only current defines it under
\* components.securitySchemes, and in removed.security_schemes when only
\* previous does.
C18_SecuritySchemes ==
    \A name \in SchemeNames :
        ( /\ pc \in {"detected", "raised"}
          /\ IsDict(stored_current) /\ Truthy(stored_current)
          /\ IsDict(current_spec) /\ Truthy(current_spec) ) =>
            /\ pc = "detected"
            /\ (HasKey(SchemesOf(current_spec), name) /\ ~HasKey(SchemesOf(stored_current), name))
                  => name \in Range(ReportList(diff_result, "added", S_security_schemes))
            /\ (HasKey(SchemesOf(stored_current), name) /\ ~HasKey(SchemesOf(current_spec), name))
                  => name \in Range(ReportList(diff_result, "removed", S_security_schemes))

\* C19: when a new parameter object is added to an operation M of P, all else
\* equal, added.required_parameters has an entry for "M P" if and only if the
\* added parameter is required.
C19_NewRequiredParameter ==
    \A P \in PathKeys, M \in DocMethods, required \in BOOLEAN :
        ( /\ pc = "detected"
          /\ HasOperation(stored_current, P, M)
          /\ current_spec = WithOperation(stored_current, P, M,
                                WithParameter(OperationOf(stored_current, P, M),
                                              NewParameter(required))) ) =>
            ( (\E n \in DOMAIN ReportList(diff_result, "added", S_required_parameters) :
                  StartsWith(ReportList(diff_result, "added", S_required_parameters)[n],
                             OperationEntry(M, P)))
              <=> required )

\* C20: every entry of added, changed and removed operations is "METHOD path"
\* with METHOD one of the 8 HTTP methods in upper case and path a key of paths
\* (of either document) that starts with "/".
C20_OperationEntryFormat ==
    (pc = "detected" /\ ResultTruthy(diff_result)) =>
        \A section \in Sections :
            \A n \in DOMAIN ReportList(diff_result, section, S_operations) :
                \E m \in 1..Len(http_methods) :
                    \E P \in Keys(PathsOf(stored_current)) \cup Keys(PathsOf(current_spec)) :
                        /\ P[1] = "/"
                        /\ ReportList(diff_result, section, S_operations)[n]
                              = OperationEntry(http_methods[m], P)

\* The category of changed that reports the formats of part.
FormatsOf(part) == IF part = S_requestBody THEN S_request_formats ELSE S_response_formats

\* C21: a changed schema value under an operation's requestBody (responses)
\* puts "METHOD path" in changed.request_formats (changed.response_formats),
\* and a newly added content type puts that entry there with the suffix
\* " (new content type)".
C21_RequestResponseFormats ==
    \A P \in PathKeys, M \in DocMethods, part \in BodyParts :
        ( /\ pc = "detected"
          /\ HasOperation(stored_current, P, M)
          /\ HasBody(OperationOf(stored_current, P, M), part) ) =>
            /\ (\E t \in {<<"o">>, <<"a">>} :
                   /\ SchemaTypeOf(BodyOf(OperationOf(stored_current, P, M), part), JsonType)
                         # Str(t)
                   /\ current_spec = WithOperation(stored_current, P, M,
                          WithBody(OperationOf(stored_current, P, M), part,
                              WithMediaType(BodyOf(OperationOf(stored_current, P, M), part),
                                            JsonType, MediaType(t)))))
                  => OperationEntry(M, P)
                        \in Range(ReportList(diff_result, "changed", FormatsOf(part)))
            /\ ( /\ ~HasKey(Get(BodyOf(OperationOf(stored_current, P, M), part), S_content),
                            TextType)
                 /\ current_spec = WithOperation(stored_current, P, M,
                        WithBody(OperationOf(stored_current, P, M), part,
                            WithMediaType(BodyOf(OperationOf(stored_current, P, M), part),
                                          TextType, MediaType(<<"o">>)))) )
                  => (OperationEntry(M, P) \o S_new_content_type)
                        \in Range(ReportList(diff_result, "changed", FormatsOf(part)))

\* The root security arrays of two documents hold the same requirements, in
\* whatever order.
SameRequirements(previous, current) ==
    /\ Len(Get(previous, S_security).v) = Len(Get(current, S_security).v)
    /\ Range(Get(previous, S_security).v) = Range(Get(current, S_security).v)

\* C22: when the root security arrays of non-empty previous and current differ
\* by more than the order of their elements, changed.global_security holds the
\* marker "Global security requirements changed" exactly once.
C22_GlobalSecurity ==
    ( /\ pc = "detected"
      /\ IsDict(stored_current) /\ HasKey(stored_current, S_security)
      /\ IsDict(current_spec) /\ HasKey(current_spec, S_security)
      /\ ~SameRequirements(stored_current, current_spec) ) =>
        Count(ReportList(diff_result, "changed", S_global_security), S_global_marker) = 1

\* C23: with previous_spec None and current_spec non-empty, detect_changes
\* returns a result that has the keys breaking_changes, changelog,
\* current_spec, has_breaking_changes and summary, with breaking_changes = [],
\* has_breaking_changes = false and current_spec the input document.
C23_InitialResultShape ==
    ( /\ pc = "detected"
      /\ stored_current = None
      /\ IsDict(current_spec) /\ Truthy(current_spec) ) =>
        /\ ResultTruthy(diff_result)
        /\ {"breaking_changes", "changelog", "current_spec", "has_breaking_changes",
            "summary"} \subseteq DOMAIN diff_result
        /\ diff_result["breaking_changes"] = <<>>
        /\ diff_result["has_breaking_changes"] = FALSE
        /\ diff_result["current_spec"] = current_spec

\* C24: update_stored_specs(N) with N not None leaves stored current = N and
\* stored previous = the document stored as current before the call when
\* there was a non-empty one, else stored previous unchanged;
\* update_stored_specs(None) changes nothing and returns False.  So every
\* step of the monitor that changes a stored file leaves the fetched document
\* as current and the former current, when non-empty, as previous.
C24_SnapshotRotation ==
    /\ [](\A N \in {None, EmptyDict, current_spec} :
            /\ N = None =>
                  /\ UpdateStoredSpecs(N, stored_current, stored_previous)
                        = <<stored_current, stored_previous>>
                  /\ ~UpdateStoredSpecsReturns(N)
            /\ N # None =>
                  /\ UpdateStoredSpecs(N, stored_current, stored_previous)[1] = N
                  /\ UpdateStoredSpecs(N, stored_current, stored_previous)[2]
                        = (IF stored_current \in {None, EmptyDict}
                           THEN stored_previous ELSE stored_current))
    /\ [][ (stored_current' # stored_current \/ stored_previous' # stored_previous) =>
              /\ stored_current' = current_spec
              /\ stored_previous' = (IF stored_current \in {None, EmptyDict}
                                     THEN stored_previous ELSE stored_current) ]_vars

\* A second update has happened: the stored previous document is a non-empty
\* one that differs from the stored current one.
C24_Witness ==
    /\ pc = "input" /\ stored_current = current_spec
    /\ IsDict(stored_previous) /\ Truthy(stored_previous)
    /\ stored_previous # stored_current

\* Every location of a diff: the added and removed items and the keys of the
\* changed values.
AllKeys(diff) ==
    Range(diff.dictionary_item_added) \cup Range(diff.dictionary_item_removed)
    \cup Range(diff.iterable_item_added) \cup Range(diff.iterable_item_removed)
    \cup Range(diff.type_changes) \cup Range(ValuesChangedKeys(diff))

\* The categories whose entries come from _extract_operation_from_key.
OperationKeyCategories ==
    {S_required_parameters, S_request_formats, S_response_formats, S_operation_security}

C28_NonEmptyReport ==
    ( /\ pc = "detected" /\ Truthy(stored_current) /\ Truthy(current_spec)
      /\ ResultTruthy(diff_result) ) =>
        /\ \E section \in Sections : DOMAIN diff_result[section] # {}
        /\ \A section \in Sections :
              \A key \in DOMAIN diff_result[section] : diff_result[section][key] # <<>>

\* A comparison with a non-empty previous document returned a report with
\* categories in two sections.
C28_Witness ==
    /\ pc = "detected" /\ Truthy(stored_current) /\ ResultTruthy(diff_result)
    /\ DOMAIN diff_result["added"] # {}
    /\ DOMAIN diff_result["changed"] # {}

\* C29: when the fetch of the current document fails, or detect_changes
\* returns None, check_for_changes sends no notification and leaves the stored
\* current and previous documents as they are: no step into, or out of, such a
\* check changes them, prepares a payload or posts one.
C29_FruitlessCheck ==
    [][ ( \/ pc' = "failed" \/ pc = "failed"
          \/ (pc' = "detected" /\ diff_result' = NoResult)
          \/ (pc = "detected" /\ diff_result = NoResult) ) =>
            /\ UNCHANGED <<stored_current, stored_previous, payload, notification_sent>>
            /\ pc' # "notified" ]_vars

\* A comparison of a non-empty stored document with a published document
\* that differs from it has returned None.
C29_Witness ==
    /\ pc = "detected" /\ diff_result = NoResult
    /\ Truthy(stored_current) /\ Truthy(current_spec)
    /\ current_spec # stored_current

\* The published document will not change any more, and comparing it with
\* the stored document yields a report.
ReportPending ==
    /\ edits = MaxEdits /\ pc = "input"
    /\ \A pairing \in BOOLEAN :
          DetectChangesResult(current_spec, stored_current, pairing) \notin {NoResult, Raised}

\* C30: with the remote document fixed at a version whose comparison with the
\* stored current yields a report, a failed delivery ends the check with the
\* documents as they were, so the next check detects and sends the report of
\* the same comparison; when checks recur and delivery eventually succeeds,
\* the stored current eventually equals the remote document, and from then on
\* a check of the unchanged remote document finds no report to send.
C30_RedetectionUntilDelivered ==
    /\ [][ (pc = "notified" /\ ~notification_sent) =>
              (pc' = "input" /\ UNCHANGED <<current_spec, stored_current, stored_previous>>)
       ]_vars
    /\ [](pc = "notified" =>
             \E pairing \in BOOLEAN :
                 diff_result = DetectChangesResult(current_spec, stored_current, pairing))
    /\ ReportPending ~> (stored_current = current_spec)
    /\ []((pc = "detected" /\ stored_current = current_spec) => diff_result = NoResult)

\* A delivery has failed while the remote document is fixed and differs from
\* the stored one.
C30_Witness ==
    /\ pc = "notified" /\ ~notification_sent
    /\ edits = MaxEdits
    /\ Truthy(stored_current) /\ stored_current # current_spec
    /\ diff_result \notin {NoResult, Raised}

\* A request the receiver is to admit at time now: both signature headers, a
\* timestamp that is an integer within 300 seconds of the clock, and the
\* signature HMAC-SHA256(secret, timestamp + "." + body).
Admissible(request, now) ==
    /\ request.timestamp # NoHeader /\ request.signature # NoHeader
    /\ request.timestamp.kind = "text" /\ IsNumeral(request.timestamp.text)
    /\ Abs(now - IntOf(request.timestamp.text)) <= 300
    /\ request.body.utf8
    /\ request.signature
          = [kind |-> "mac", key |-> webhook_secret,
             message |-> request.timestamp.text \o <<".">> \o request.body.text]

\* C26: with a webhook secret configured, a request is appended to
\* notifications only if it carries both signature headers, its timestamp is an
\* integer within 300 seconds of the server clock and its signature is
\* HMAC-SHA256(secret, timestamp + "." + body); every other request is
\* answered with status 401 and leaves the list unchanged.
C26_WebhookAdmission ==
    [][ webhook_secret # <<>> =>
          /\ notifications' # notifications => Admissible(handled'.request, clock)
          /\ (handled' # handled /\ ~Admissible(handled'.request, clock)) =>
                (handled'.status = "401" /\ notifications' = notifications) ]_vars


(***************************************************************************)
(* The interval job: check_for_changes in the threads of the scheduler.     *)
(***************************************************************************)
\* add_job names no max_instances, so the scheduler's default holds: one
\* instance of a job at a time.
max_instances == 1

\* The threads that run check_for_changes.
Running(pool) == {w \in Workers : pool[w].pc # "idle"}

\* A variant of the scheduler that submits a run whatever is running; C25
\* does not hold of it.
MayRunAlways(pool) == TRUE

\* The scheduler's test when the interval fires: the run is skipped while
\* max_instances runs of the job are in progress.
MayRun(pool) == Cardinality(Running(pool)) < max_instances

\* The interval fires and a thread of the pool takes the run.
JobStart ==
    \E w \in Workers :
        /\ jobs[w].pc = "idle"
        /\ MayRun(jobs)
        /\ jobs' = [jobs EXCEPT ![w] = [IdleJob EXCEPT !.pc = "started"]]
        /\ UNCHANGED <<current_spec, stored_current, stored_previous, edits, pc,
                       diff_result, payload, notification_sent, webhook_secret, clock,
                       handled, notifications>>

\* fetch_current_spec; the run returns when nothing is fetched.
JobFetch ==
    \E w \in Workers :
        /\ jobs[w].pc = "started"
        /\ \E fetched \in {FetchCurrentSpec(current_spec)} :
              jobs' = [jobs EXCEPT ![w] =
                          IF Truthy(fetched)
                          THEN [jobs[w] EXCEPT !.pc = "fetched", !.current_spec = fetched]
                          ELSE IdleJob]
        /\ UNCHANGED <<current_spec, stored_current, stored_previous, edits, pc,
                       diff_result, payload, notification_sent, webhook_secret, clock,
                       handled, notifications>>

\* get_stored_specs and detect_changes(current_spec, stored_current); an
\* exception of detect_changes ends the run.
JobCompare ==
    \E w \in Workers, pairing \in BOOLEAN :
        /\ jobs[w].pc = "fetched"
        /\ \E result \in {DetectChangesResult(jobs[w].current_spec, stored_current,
                                              pairing)} :
              jobs' = [jobs EXCEPT ![w] =
                          IF result = Raised THEN IdleJob
                          ELSE [jobs[w] EXCEPT !.pc = "detected",
                                               !.stored_current = stored_current,
                                               !.diff_result = result]]
        /\ UNCHANGED <<current_spec, stored_current, stored_previous, edits, pc,
                       diff_result, payload, notification_sent, webhook_secret, clock,
                       handled, notifications>>

\* `if diff_result:` send_notification; without a report the run returns.
JobNotify ==
    \E w \in Workers, ok \in BOOLEAN :
        /\ jobs[w].pc = "detected"
        /\ jobs' = [jobs EXCEPT ![w] =
                       IF ResultTruthy(jobs[w].diff_result)
                       THEN [jobs[w] EXCEPT !.pc = "notified", !.notification_sent = ok]
                       ELSE IdleJob]
        /\ UNCHANGED <<current_spec, stored_current, stored_previous, edits, pc,
                       diff_result, payload, notification_sent, webhook_secret, clock,
                       handled, notifications>>

\* `if notification_sent:` update_stored_specs(current_spec), which loads the
\* current file again; the run returns.
JobStore ==
    \E w \in Workers :
        /\ jobs[w].pc = "notified"
        /\ jobs[w].notification_sent
        /\ stored_current' =
              UpdateStoredSpecs(jobs[w].current_spec, stored_current, stored_previous)[1]
        /\ stored_previous' =
              UpdateStoredSpecs(jobs[w].current_spec, stored_current, stored_previous)[2]
        /\ jobs' = [jobs EXCEPT ![w] = IdleJob]
        /\ UNCHANGED <<current_spec, edits, pc, diff_result, payload, notification_sent,
                       webhook_secret, clock, handled, notifications>>

\* The notification failed: the run returns and nothing is stored.
JobKeep ==
    \E w \in Workers :
        /\ jobs[w].pc = "notified"
        /\ ~jobs[w].notification_sent
        /\ jobs' = [jobs EXCEPT ![w] = IdleJob]
        /\ UNCHANGED <<current_spec, stored_current, stored_previous, edits, pc,
                       diff_result, payload, notification_sent, webhook_secret, clock,
                       handled, notifications>>

\* The monitor after start(): the files as start() left them, the scheduler
\* started, no run in progress.
InitScheduler ==
    /\ current_spec \in {None, BaseDoc, RichDoc}
    /\ stored_current \in {None, BaseDoc}
    /\ stored_current = None => ~Truthy(FetchCurrentSpec(current_spec))
    /\ stored_previous = None
    /\ edits = 0
    /\ pc = "input"
    /\ diff_result = NoResult
    /\ payload = NoPayload
    /\ notification_sent = FALSE
    /\ jobs = NoJobs
    /\ ServerAtRest

NextScheduler ==
    \/ AddPath
    \/ RemovePath
    \/ AddMethod
    \/ RemoveMethod
    \/ JobStart
    \/ JobFetch
    \/ JobCompare
    \/ JobNotify
    \/ JobStore
    \/ JobKeep

SpecScheduler == InitScheduler /\ [][NextScheduler]_vars

\* C25: at most one check_for_changes is in progress at any time; the stored
\* current snapshot a run compared with is still the stored one while the run
\* goes on, and when the run stores, the file holds what the run fetched and
\* the snapshot it compared with has become the previous one (none is lost,
\* none is rotated twice).
C25_SingleCheck ==
    /\ [](/\ Cardinality({w \in Workers : jobs[w].pc # "idle"}) <= 1
          /\ \A w \in Workers :
                jobs[w].pc \in {"detected", "notified"} =>
                    jobs[w].stored_current = stored_current)
    /\ [][ \A w \in Workers :
             (jobs[w].pc = "notified" /\ jobs[w].notification_sent
                  /\ jobs'[w].pc = "idle") =>
                 /\ stored_current' = jobs[w].current_spec
                 /\ stored_previous' = IF Truthy(jobs[w].stored_current)
                                       THEN jobs[w].stored_current
                                       ELSE stored_previous ]_vars

\* A run that compared with a stored snapshot and sent its report is about to
\* store, after the published document changed under it.
C25_Witness ==
    \E w \in Workers :
        /\ jobs[w].pc = "notified"
        /\ jobs[w].notification_sent
        /\ jobs[w].current_spec # current_spec
        /\ jobs[w].stored_current # None
=============================================================================
